---- MODULE Spec2Model ----
(***************************************************************************)
(* vaihde: git worktree automation.  A model of config discovery and       *)
(* loading (config.py), worktree creation, file copy and post-commands     *)
(* (ops.py) and the `new` / `init` command flows (cli.py).                 *)
(***************************************************************************)
EXTENDS Integers, Sequences, FiniteSets, TLC

\* ------------------------------------------------------------------ bounds
MaxFiles == 2       \* longest copy.files list explored
MaxCmds == 2        \* longest post_commands list explored
MaxSegs == 2        \* most path segments of a repository root (mangle_path)
MaxSegLen == 2      \* longest path segment (mangle_path)

Procs == {"p1", "p2"}        \* tool invocations that may run at the same time
SeqProcs == {"p1"}           \* one invocation after the other
Names == {"feat", "fix"}     \* worktree / branch names given on the command line
Roots == {"w1", "w2"}        \* worktree root directories
ConfigFiles == {"global", "local"}
SegChars == {"a", "_"}       \* characters of a path segment

VARIABLES
    cfgFiles,    \* which of the two config files exist on disk
    cfgData,     \* parsed TOML content of each config file
    dirs,        \* directories that exist: <<root>> and <<root, name>>
    branches,    \* refs/heads/* of the repository
    worktrees,   \* linked worktrees git knows: <<root, name>>
    pc,          \* position of each invocation
    cmd,         \* what each invocation runs: new, init or a direct create_worktree call
    name,        \* the name argument
    target,      \* create_worktree's target argument
    found,       \* result of find_config
    config,      \* the loaded VaihdeConfig
    i,           \* copy_files loop position
    j,           \* run_commands loop position
    copyLog,     \* <<file, outcome>> of every copy attempted
    started,     \* post-commands spawned, in order
    runLog,      \* exit codes of the post-commands that finished
    err,         \* the exception that ended the invocation, if any
    rc,          \* what run() returned
    snap,        \* the world as it was when the invocation started
    initOk,      \* some `init` has written a config
    mpc,         \* mangle_path check: "in", "out" or "off"
    mIn,         \* the two paths given to mangle_path
    mOut         \* the two filenames it returned

world == <<cfgFiles, cfgData, dirs, branches, worktrees>>
locals == <<pc, cmd, name, target, found, config, i, j, copyLog, started, runLog, err, rc, snap>>
mvars == <<mpc, mIn, mOut>>
vars == <<world, locals, initOk, mvars>>

\* ------------------------------------------------------------ config.py

\* str(path) of a resolved absolute path, as a sequence of characters
RECURSIVE PathStr(_)
PathStr(segs) ==
    IF segs = <<>> THEN <<>>
    ELSE <<"/">> \o Head(segs) \o PathStr(Tail(segs))

str(path) == IF path = <<>> THEN <<"/">> ELSE PathStr(path)

RECURSIVE lstrip(_, _)
lstrip(s, c) == IF s # <<>> /\ Head(s) = c THEN lstrip(Tail(s), c) ELSE s

RECURSIVE replace(_, _, _)
replace(s, old, new) ==
    IF s = <<>> THEN <<>>
    ELSE (IF Head(s) = old THEN new ELSE <<Head(s)>>) \o replace(Tail(s), old, new)

TomlSuffix == <<".", "t", "o", "m", "l">>

mangle_path(path) == replace(lstrip(str(path), "/"), "/", <<"_", "_">>) \o TomlSuffix

\* find_config, the docstring's order (local first) instead of the code's
find_config_local_first(files) ==
    IF "local" \in files THEN "local"
    ELSE IF "global" \in files THEN "global"
    ELSE "none"

\* find_config that falls back to the local path when nothing exists
find_config_fallback(files) ==
    IF "global" \in files THEN "global" ELSE "local"

\* find_config that forgets the global config
find_config_local_only(files) ==
    IF "local" \in files THEN "local" ELSE "none"

find_config(files) ==
    IF "global" \in files THEN "global"
    ELSE IF "local" \in files THEN "local"
    ELSE "none"

NoConfig == [worktree_root |-> "none", copy_files |-> <<>>, post_commands |-> <<>>]

\* load_config on the parsed TOML data: the error raised, and the VaihdeConfig
load_config(data) ==
    IF data.wr = "absent"
    THEN [err |-> "InvalidConfig", cfg |-> NoConfig]
    ELSE IF data.wr = "nonstr"
    THEN [err |-> "TypeError", cfg |-> NoConfig]
    ELSE IF \E k \in 1..Len(data.post) : data.post[k].run = "absent"
    THEN [err |-> "InvalidConfig", cfg |-> NoConfig]
    ELSE [err |-> "none",
          cfg |-> [worktree_root |-> data.wr,
                   copy_files |-> data.files,
                   post_commands |-> data.post]]

\* CONFIG_TEMPLATE filled in with the worktree root typed at the prompt
ConfigTemplate(root) == [wr |-> root, files |-> <<>>, post |-> <<>>]

\* --------------------------------------------------------------- ops.py

path_exists(ds, path) == path \in ds

\* a branch check that never finds the branch
branch_exists_never(brs, branch) == FALSE

branch_exists(brs, branch) == branch \in brs

\* git worktree add -b name path: refuses a taken branch or a taken path,
\* and may fail for reasons of its own
git_worktree_add_ok(ds, brs, path, branch, gitOk) ==
    gitOk /\ branch \notin brs /\ path \notin ds

\* ---------------------------------------------------------------- cli.py

VaihdeErrors == {"InvalidConfig", "WorktreeExists", "BranchExists",
                 "WorktreeCreationFailed"}

\* cmd_new and cmd_init log an error and return 1 without raising
Refusals == {"NoConfigFound", "ConfigExists"}

\* what the caller sees: run() returns an exit code and turns VaihdeError
\* into 1; any other exception leaves run(); a direct call returns or raises
run_rc(c, e) ==
    IF c = "create_worktree"
    THEN (IF e = "none" THEN "returned" ELSE "raised")
    ELSE IF e = "none" THEN "0"
    ELSE IF e \in VaihdeErrors \cup Refusals THEN "1"
    ELSE "crash"

NoSnap == [dirs |-> {}, branches |-> {}, worktrees |-> {}, cfgFiles |-> {}]
Snapshot == [dirs |-> dirs, branches |-> branches, worktrees |-> worktrees,
             cfgFiles |-> cfgFiles]

\* the invocation of p ends with exception (or refusal) e
Ends(p, e) ==
    /\ pc' = [pc EXCEPT ![p] = "done"]
    /\ err' = [err EXCEPT ![p] = e]
    /\ rc' = [rc EXCEPT ![p] = run_rc(cmd[p], e)]

\* where cmd_new goes once the worktree exists, and once the files are copied
AfterCreate(cfg) ==
    IF cfg.copy_files # <<>> THEN "copy"
    ELSE IF cfg.post_commands # <<>> THEN "run"
    ELSE "done"

AfterCopy(cfg) == IF cfg.post_commands # <<>> THEN "run" ELSE "done"

Begin(p, c, n, t, at) ==
    /\ pc[p] = "idle"
    /\ pc' = [pc EXCEPT ![p] = at]
    /\ cmd' = [cmd EXCEPT ![p] = c]
    /\ name' = [name EXCEPT ![p] = n]
    /\ target' = [target EXCEPT ![p] = t]
    /\ snap' = [snap EXCEPT ![p] = Snapshot]
    /\ UNCHANGED <<world, found, config, i, j, copyLog, started, runLog, err, rc,
                   initOk, mvars>>

\* run(["new", name])
StartNew(p) == \E n \in Names : Begin(p, "new", n, "none", "new_find")

\* run(["init"])
StartInit(p) == Begin(p, "init", "none", "none", "init_find")

\* create_worktree(repo_root, target, name) called directly
StartCall(p) ==
    \E t \in Roots, n \in Names : Begin(p, "create_worktree", n, t, "cw_dir")

\* cmd_new: find_config, and the refusal when there is none
NewFindConfig(p) ==
    /\ pc[p] = "new_find"
    /\ found' = [found EXCEPT ![p] = find_config(cfgFiles)]
    /\ IF find_config(cfgFiles) = "none"
       THEN Ends(p, "NoConfigFound")
       ELSE /\ pc' = [pc EXCEPT ![p] = "new_load"]
            /\ UNCHANGED <<err, rc>>
    /\ UNCHANGED <<world, cmd, name, target, config, i, j, copyLog, started, runLog,
                   snap, initOk, mvars>>

\* cmd_new: load_config, then the call of create_worktree
NewLoadConfig(p) ==
    /\ pc[p] = "new_load"
    /\ LET r == load_config(cfgData[found[p]]) IN
       IF r.err # "none"
       THEN /\ Ends(p, r.err)
            /\ UNCHANGED <<config, target>>
       ELSE /\ config' = [config EXCEPT ![p] = r.cfg]
            /\ target' = [target EXCEPT ![p] = r.cfg.worktree_root]
            /\ pc' = [pc EXCEPT ![p] = "cw_dir"]
            /\ UNCHANGED <<err, rc>>
    /\ UNCHANGED <<world, cmd, name, found, i, j, copyLog, started, runLog,
                   snap, initOk, mvars>>

\* create_worktree without its two checks
CwCheckDir_NoChecks(p) ==
    /\ pc[p] = "cw_dir"
    /\ pc' = [pc EXCEPT ![p] = "cw_mkdir"]
    /\ UNCHANGED <<world, cmd, name, target, found, config, i, j, copyLog, started,
                   runLog, err, rc, snap, initOk, mvars>>

\* create_worktree with the target directory made before the checks
CwCheckDir_MkdirFirst(p) ==
    /\ pc[p] = "cw_dir"
    /\ dirs' = dirs \cup {<<target[p]>>}
    /\ IF path_exists(dirs, <<target[p], name[p]>>)
       THEN Ends(p, "WorktreeExists")
       ELSE /\ pc' = [pc EXCEPT ![p] = "cw_branch"]
            /\ UNCHANGED <<err, rc>>
    /\ UNCHANGED <<cfgFiles, cfgData, branches, worktrees, cmd, name, target, found,
                   config, i, j, copyLog, started, runLog, snap, initOk, mvars>>

\* create_worktree: worktree_path.exists()
CwCheckDir(p) ==
    /\ pc[p] = "cw_dir"
    /\ IF path_exists(dirs, <<target[p], name[p]>>)
       THEN Ends(p, "WorktreeExists")
       ELSE /\ pc' = [pc EXCEPT ![p] = "cw_branch"]
            /\ UNCHANGED <<err, rc>>
    /\ UNCHANGED <<world, cmd, name, target, found, config, i, j, copyLog, started,
                   runLog, snap, initOk, mvars>>

\* create_worktree: _branch_exists(repo_root, name)
CwCheckBranch(p) ==
    /\ pc[p] = "cw_branch"
    /\ IF branch_exists(branches, name[p])
       THEN Ends(p, "BranchExists")
       ELSE /\ pc' = [pc EXCEPT ![p] = "cw_mkdir"]
            /\ UNCHANGED <<err, rc>>
    /\ UNCHANGED <<world, cmd, name, target, found, config, i, j, copyLog, started,
                   runLog, snap, initOk, mvars>>

\* create_worktree: target.mkdir(parents=True, exist_ok=True)
CwMkdir(p) ==
    /\ pc[p] = "cw_mkdir"
    /\ dirs' = dirs \cup {<<target[p]>>}
    /\ pc' = [pc EXCEPT ![p] = "cw_add"]
    /\ UNCHANGED <<cfgFiles, cfgData, branches, worktrees, cmd, name, target, found,
                   config, i, j, copyLog, started, runLog, err, rc, snap, initOk, mvars>>

\* create_worktree: git worktree add -b name worktree_path, and the return
\* into cmd_new (or to the direct caller)
CwGitAdd(p) ==
    /\ pc[p] = "cw_add"
    /\ \E gitOk \in BOOLEAN :
         IF git_worktree_add_ok(dirs, branches, <<target[p], name[p]>>, name[p], gitOk)
         THEN /\ dirs' = dirs \cup {<<target[p]>>, <<target[p], name[p]>>}
              /\ branches' = branches \cup {name[p]}
              /\ worktrees' = worktrees \cup {<<target[p], name[p]>>}
              /\ IF cmd[p] = "new" /\ AfterCreate(config[p]) # "done"
                 THEN /\ pc' = [pc EXCEPT ![p] = AfterCreate(config[p])]
                      /\ UNCHANGED <<err, rc>>
                 ELSE Ends(p, "none")
         ELSE /\ Ends(p, "WorktreeCreationFailed")
              /\ UNCHANGED <<dirs, branches, worktrees>>
    /\ i' = [i EXCEPT ![p] = 1]
    /\ j' = [j EXCEPT ![p] = 1]
    /\ UNCHANGED <<cfgFiles, cfgData, cmd, name, target, found, config, copyLog,
                   started, runLog, snap, initOk, mvars>>

CopyOutcomes == {"copied", "missing", "oserror"}

\* copy_files: one turn of the loop; a missing source is skipped, an OSError
\* is caught and logged
CopyStep(p) ==
    /\ pc[p] = "copy"
    /\ \E outcome \in CopyOutcomes :
         copyLog' = [copyLog EXCEPT ![p] = Append(@, <<config[p].copy_files[i[p]], outcome>>)]
    /\ i' = [i EXCEPT ![p] = @ + 1]
    /\ IF i[p] < Len(config[p].copy_files)
       THEN UNCHANGED <<pc, err, rc>>
       ELSE IF AfterCopy(config[p]) = "done"
            THEN Ends(p, "none")
            ELSE /\ pc' = [pc EXCEPT ![p] = AfterCopy(config[p])]
                 /\ UNCHANGED <<err, rc>>
    /\ UNCHANGED <<world, cmd, name, target, found, config, j, started, runLog,
                   snap, initOk, mvars>>

\* what starting a post-command raises: shlex.split and subprocess.run fail on
\* a run that is no string, and subprocess.run without a shell raises
\* FileNotFoundError when the executable cannot be found
SpawnError(c) ==
    IF c.run = "nonstr" THEN "TypeError"
    ELSE IF c.run = "nocmd" /\ ~c.shell THEN "OSError"
    ELSE "none"

\* exit codes a started command may end with
ExitCodes(c) == IF c.run = "nocmd" THEN {127} ELSE {0, 1}

\* run_commands: subprocess.run starts the command
RunStart(p) ==
    /\ pc[p] = "run"
    /\ LET c == config[p].post_commands[j[p]] IN
       IF SpawnError(c) # "none"
       THEN /\ Ends(p, SpawnError(c))
            /\ UNCHANGED started
       ELSE /\ started' = [started EXCEPT ![p] = Append(@, j[p])]
            /\ pc' = [pc EXCEPT ![p] = "run_wait"]
            /\ UNCHANGED <<err, rc>>
    /\ UNCHANGED <<world, cmd, name, target, found, config, i, j, copyLog, runLog,
                   snap, initOk, mvars>>

\* run_commands: subprocess.run returns when the command has exited; a
\* non-zero exit code is logged
RunWait(p) ==
    /\ pc[p] = "run_wait"
    /\ \E code \in ExitCodes(config[p].post_commands[j[p]]) :
         runLog' = [runLog EXCEPT ![p] = Append(@, code)]
    /\ j' = [j EXCEPT ![p] = @ + 1]
    /\ IF j[p] < Len(config[p].post_commands)
       THEN /\ pc' = [pc EXCEPT ![p] = "run"]
            /\ UNCHANGED <<err, rc>>
       ELSE Ends(p, "none")
    /\ UNCHANGED <<world, cmd, name, target, found, config, i, copyLog, started,
                   snap, initOk, mvars>>

\* cmd_init: the refusal when find_config finds a config
InitFind(p) ==
    /\ pc[p] = "init_find"
    /\ found' = [found EXCEPT ![p] = find_config(cfgFiles)]
    /\ IF find_config(cfgFiles) # "none"
       THEN Ends(p, "ConfigExists")
       ELSE /\ pc' = [pc EXCEPT ![p] = "init_write"]
            /\ UNCHANGED <<err, rc>>
    /\ UNCHANGED <<world, cmd, name, target, config, i, j, copyLog, started, runLog,
                   snap, initOk, mvars>>

\* cmd_init: the two prompts and the write of the template
InitWrite(p) ==
    /\ pc[p] = "init_write"
    /\ \E choice \in {"", "1", "2"}, root \in Roots :
         LET config_path == IF choice = "2" THEN "global" ELSE "local" IN
         /\ cfgFiles' = cfgFiles \cup {config_path}
         /\ cfgData' = [cfgData EXCEPT ![config_path] = ConfigTemplate(root)]
    /\ initOk' = TRUE
    /\ Ends(p, "none")
    /\ UNCHANGED <<dirs, branches, worktrees, cmd, name, target, found, config, i, j,
                   copyLog, started, runLog, snap, mvars>>

\* the process exits; the next invocation starts afresh
Finish(p) ==
    /\ pc[p] = "done"
    /\ pc' = [pc EXCEPT ![p] = "idle"]
    /\ cmd' = [cmd EXCEPT ![p] = "none"]
    /\ name' = [name EXCEPT ![p] = "none"]
    /\ target' = [target EXCEPT ![p] = "none"]
    /\ found' = [found EXCEPT ![p] = "none"]
    /\ config' = [config EXCEPT ![p] = NoConfig]
    /\ i' = [i EXCEPT ![p] = 1]
    /\ j' = [j EXCEPT ![p] = 1]
    /\ copyLog' = [copyLog EXCEPT ![p] = <<>>]
    /\ started' = [started EXCEPT ![p] = <<>>]
    /\ runLog' = [runLog EXCEPT ![p] = <<>>]
    /\ err' = [err EXCEPT ![p] = "none"]
    /\ rc' = [rc EXCEPT ![p] = "none"]
    /\ snap' = [snap EXCEPT ![p] = NoSnap]
    /\ UNCHANGED <<world, initOk, mvars>>

\* ------------------------------------------------------- configurations

SeqsUpTo(S, n) == UNION {[1..k -> S] : k \in 0..n}

\* copy.files: opaque file names, told apart by their position
FileLists == {[k \in 1..n |-> k] : n \in 0..MaxFiles}

\* a post_commands table: run is missing, no string, a command that can be
\* started, or one whose executable does not exist
RunVals == {"absent", "nonstr", "cmd", "nocmd"}
Entries == [run : RunVals, shell : BOOLEAN]

\* every parsed config file explored by SpecNew
Configs ==
    [wr : {"absent", "nonstr", "w1"}, files : FileLists, post : SeqsUpTo(Entries, MaxCmds)]

GoodCmd == [run |-> "cmd", shell |-> FALSE]

\* the configs of Spec: worktree_root only; the longest lists, every command
\* one that can be started; and a config without worktree_root
MinimalCfg == [wr |-> "w1", files |-> <<>>, post |-> <<>>]
FullCfg == [wr |-> "w1", files |-> [k \in 1..MaxFiles |-> k],
            post |-> [k \in 1..MaxCmds |-> GoodCmd]]
NoRootCfg == [wr |-> "absent", files |-> [k \in 1..MaxFiles |-> k], post |-> <<>>]

\* the config of SpecRace: one file to copy, one command to run
RaceCfg == [wr |-> "w1", files |-> <<1>>, post |-> <<GoodCmd>>]

InitLocals ==
    /\ pc = [p \in Procs |-> "idle"]
    /\ cmd = [p \in Procs |-> "none"]
    /\ name = [p \in Procs |-> "none"]
    /\ target = [p \in Procs |-> "none"]
    /\ found = [p \in Procs |-> "none"]
    /\ config = [p \in Procs |-> NoConfig]
    /\ i = [p \in Procs |-> 1]
    /\ j = [p \in Procs |-> 1]
    /\ copyLog = [p \in Procs |-> <<>>]
    /\ started = [p \in Procs |-> <<>>]
    /\ runLog = [p \in Procs |-> <<>>]
    /\ err = [p \in Procs |-> "none"]
    /\ rc = [p \in Procs |-> "none"]
    /\ snap = [p \in Procs |-> NoSnap]
    /\ initOk = FALSE

MangleOff == mpc = "off" /\ mIn = <<>> /\ mOut = <<>>

\* a directory somebody made under w1, with no branch of that name
PreDirs == {<<"w1">>, <<"w1", "fix">>}

\* ------------------------------------------------------- specifications

\* Spec: invocations of new, init and create_worktree, one after the other
Init ==
    /\ cfgFiles \in SUBSET ConfigFiles
    /\ \E c \in {MinimalCfg, FullCfg, NoRootCfg} : cfgData = [f \in ConfigFiles |-> c]
    /\ dirs \in {{}, PreDirs}
    /\ branches \in {{}, {"feat"}}
    /\ worktrees = {}
    /\ InitLocals
    /\ MangleOff

Flow(p) ==
    \/ NewFindConfig(p)
    \/ NewLoadConfig(p)
    \/ CwCheckDir(p)
    \/ CwCheckBranch(p)
    \/ CwMkdir(p)
    \/ CwGitAdd(p)
    \/ CopyStep(p)
    \/ RunStart(p)
    \/ RunWait(p)
    \/ Finish(p)

Next ==
    \E p \in SeqProcs :
        \/ StartNew(p)
        \/ StartInit(p)
        \/ StartCall(p)
        \/ InitFind(p)
        \/ InitWrite(p)
        \/ Flow(p)

Spec == Init /\ [][Next]_vars

\* SpecNew: `new` after `new`, over every config file of Configs
InitNew ==
    /\ cfgFiles \in {{"local"}, {"global"}}
    /\ \E c \in Configs : cfgData = [f \in ConfigFiles |-> c]
    /\ dirs = {}
    /\ branches = {}
    /\ worktrees = {}
    /\ InitLocals
    /\ MangleOff

NextNew == \E p \in SeqProcs : StartNew(p) \/ Flow(p)

SpecNew == InitNew /\ [][NextNew]_vars

\* SpecRace: two `new` invocations at the same time, one config
InitRace ==
    /\ cfgFiles = {"local"}
    /\ cfgData = [f \in ConfigFiles |-> RaceCfg]
    /\ dirs = {}
    /\ branches = {}
    /\ worktrees = {}
    /\ InitLocals
    /\ MangleOff

NextRace == \E p \in Procs : StartNew(p) \/ Flow(p)

SpecRace == InitRace /\ [][NextRace]_vars

\* SpecMangle: mangle_path applied to two repository roots
Segments == UNION {[1..k -> SegChars] : k \in 1..MaxSegLen}
Paths == SeqsUpTo(Segments, MaxSegs)

InitMangle ==
    /\ mpc = "in"
    /\ mIn \in Paths \X Paths
    /\ mOut = <<>>
    /\ cfgFiles = {}
    /\ cfgData = [f \in ConfigFiles |-> MinimalCfg]
    /\ dirs = {}
    /\ branches = {}
    /\ worktrees = {}
    /\ InitLocals

Mangle ==
    /\ mpc = "in"
    /\ mOut' = <<mangle_path(mIn[1]), mangle_path(mIn[2])>>
    /\ mpc' = "out"
    /\ UNCHANGED <<world, locals, initOk, mIn>>

NextMangle == Mangle

SpecMangle == InitMangle /\ [][NextMangle]_vars

\* --------------------------------------------------------------- claims

Path(p) == <<target[p], name[p]>>

\* the invocation of p is over and it called create_worktree
Called(p) == pc[p] = "done" /\ cmd[p] \in {"new", "create_worktree"} /\ target[p] # "none"

\* the invocation of p made its worktree
Created(p) == Path(p) \in worktrees /\ Path(p) \notin snap[p].worktrees

Rejected(p) == err[p] \in {"WorktreeExists", "BranchExists"}

\* C1: in a series of create_worktree calls, a call is rejected with
\* WorktreeExists when target/name existed when it was made, with BranchExists
\* when the branch existed and target/name did not, and it succeeds only when
\* both the directory and the branch name were free.
C1_RejectsTakenDirOrBranch ==
    \A p \in Procs :
        Called(p) =>
            /\ Path(p) \in snap[p].dirs => err[p] = "WorktreeExists"
            /\ (name[p] \in snap[p].branches /\ Path(p) \notin snap[p].dirs)
                   => err[p] = "BranchExists"
            /\ err[p] = "none"
                   => (Path(p) \notin snap[p].dirs /\ name[p] \notin snap[p].branches)

\* a call rejected for its branch although its directory does not exist
C1_Witness ==
    \E p \in Procs :
        /\ Called(p)
        /\ err[p] = "BranchExists"
        /\ Path(p) \notin dirs
        /\ name[p] \in snap[p].branches

WellTyped(cfg) ==
    \A k \in 1..Len(cfg.post_commands) : cfg.post_commands[k].run \in {"cmd", "nocmd"}

\* C3: once the worktree is made, `new` runs every post-command exactly once,
\* in declared order, each started only after the previous one has finished,
\* whatever their exit codes, and returns exit code 0.
C3_EveryCommandRuns ==
    \A p \in Procs :
        (cmd[p] = "new" /\ Created(p) /\ WellTyped(config[p])) =>
            /\ Len(started[p]) - Len(runLog[p]) \in {0, 1}
            /\ \A k \in 1..Len(started[p]) : started[p][k] = k
            /\ pc[p] = "done" =>
                  /\ Len(started[p]) = Len(config[p].post_commands)
                  /\ Len(runLog[p]) = Len(config[p].post_commands)
                  /\ rc[p] = "0"

\* some copy of p found its source missing or failed with an OSError
CopyFailed(p) == \E k \in 1..Len(copyLog[p]) : copyLog[p][k][2] \in {"missing", "oserror"}

\* C4: when a copy.files entry is missing or fails to copy, every entry is
\* still attempted in order, and `new` goes on to the post-commands and
\* returns exit code 0 with the worktree kept.
C4_CopyFailuresNeverAbort ==
    \A p \in Procs :
        (cmd[p] = "new" /\ Created(p) /\ WellTyped(config[p]) /\ CopyFailed(p)
                /\ pc[p] = "done") =>
            /\ Len(copyLog[p]) = Len(config[p].copy_files)
            /\ \A k \in 1..Len(copyLog[p]) : copyLog[p][k][1] = config[p].copy_files[k]
            /\ Path(p) \in worktrees
            /\ rc[p] = "0"

\* C5: `new` in a repository with neither config file returns exit code 1 and
\* creates no directory, no branch and no worktree, copies no file and runs no
\* post-command.
C5_NoConfigNoSideEffect ==
    \A p \in Procs :
        (cmd[p] = "new" /\ pc[p] = "done" /\ snap[p].cfgFiles = {}) =>
            /\ rc[p] = "1"
            /\ dirs = snap[p].dirs
            /\ branches = snap[p].branches
            /\ worktrees = snap[p].worktrees
            /\ copyLog[p] = <<>>
            /\ started[p] = <<>>
            /\ runLog[p] = <<>>

\* `new` has just given up for want of a config
C5_Witness ==
    \E p \in Procs :
        /\ cmd[p] = "new"
        /\ pc[p] = "done"
        /\ cfgFiles = {}
        /\ err[p] = "NoConfigFound"

\* a config file with a missing or malformed required field
Malformed(data) ==
    \/ data.wr \in {"absent", "nonstr"}
    \/ \E k \in 1..Len(data.post) : data.post[k].run \in {"absent", "nonstr"}

\* C6: when the discovered config has a missing or malformed required field,
\* loading fails with InvalidConfig and `new` returns exit code 1 without
\* having created a worktree, copied a file or run a post-command.
C6_ValidationBeforeSideEffects ==
    \A p \in Procs :
        (cmd[p] = "new" /\ pc[p] = "done" /\ found[p] # "none"
                /\ Malformed(cfgData[found[p]])) =>
            /\ err[p] = "InvalidConfig"
            /\ rc[p] = "1"
            /\ dirs = snap[p].dirs
            /\ branches = snap[p].branches
            /\ worktrees = snap[p].worktrees
            /\ copyLog[p] = <<>>
            /\ started[p] = <<>>

\* C7: mangle_path maps two different absolute paths to different filenames.
C7_MangleInjective ==
    (mpc = "out" /\ mIn[1] # mIn[2]) => mOut[1] # mOut[2]

\* an `init` invocation of p ends in this step
InitEnds(p) == cmd[p] = "init" /\ pc[p] # "done" /\ pc'[p] = "done"

\* C8: `init` writes a config only when neither config file exists at that
\* moment; otherwise it returns exit code 1 and leaves both files as they
\* were; after one successful `init` every later `init` returns 1 and exactly
\* one of the two files exists.
C8_InitNeverOverwrites ==
    [][ /\ (cfgFiles' # cfgFiles \/ cfgData' # cfgData) => cfgFiles = {}
        /\ \A p \in Procs :
              InitEnds(p) =>
                 /\ cfgFiles # {} =>
                       (rc'[p] = "1" /\ cfgFiles' = cfgFiles /\ cfgData' = cfgData)
                 /\ initOk => rc'[p] = "1"
        /\ initOk' => Cardinality(cfgFiles') = 1
      ]_vars

\* a later `init` was refused after one had written a config
C8_Witness ==
    \E p \in Procs :
        /\ initOk
        /\ cmd[p] = "init"
        /\ pc[p] = "done"
        /\ rc[p] = "1"

\* p has passed both checks of create_worktree and has not yet asked git to
\* add the worktree
PastChecks(p) == cmd[p] = "new" /\ pc[p] \in {"cw_mkdir", "cw_add"}

\* C9: two concurrent `new` invocations with the same name and worktree root
\* can both stand between the checks and `git worktree add` (the witness);
\* whenever they do, both checks were passed rightly: neither the worktree
\* directory nor the branch exists yet.
C9_BothPassTheChecks ==
    \A p, q \in Procs :
        (p # q /\ PastChecks(p) /\ PastChecks(q) /\ Path(p) = Path(q)) =>
            /\ Path(p) \notin dirs
            /\ name[p] \notin branches
            /\ Path(p) \notin worktrees

\* both invocations have passed both checks and neither has called git
C9_Witness ==
    /\ PastChecks("p1")
    /\ PastChecks("p2")
    /\ pc["p1"] = "cw_add"
    /\ pc["p2"] = "cw_add"
    /\ Path("p1") = Path("p2")

\* C10: a create_worktree call rejected with WorktreeExists or BranchExists
\* changes nothing: the directories, the branches and the worktrees are those
\* of before the call, so target exists only if it existed before.
C10_RejectionChangesNothing ==
    \A p \in Procs :
        (Called(p) /\ Rejected(p)) =>
            /\ dirs = snap[p].dirs
            /\ branches = snap[p].branches
            /\ worktrees = snap[p].worktrees

\* a direct call rejected while its target directory does not exist
C10_Witness ==
    \E p \in Procs :
        /\ Called(p)
        /\ Rejected(p)
        /\ cmd[p] = "create_worktree"
        /\ <<target[p]>> \notin dirs

====
